---- MODULE Spec2Model ----
(***************************************************************************)
(* State machine of the SquadCreationBlocker plugin                        *)
(* (squad-server/plugins/squad-creation-blocker.js).                       *)
(*                                                                         *)
(* Time is the value of Date.now() in milliseconds.  Node timers are       *)
(* modelled as a set of pending timeouts; the clock never advances past    *)
(* the due time of a pending timeout, but any other event may still be     *)
(* handled at that instant before the timeout callback runs.               *)
(*                                                                         *)
(* handleSquadCreated is an async function: it runs synchronously up to    *)
(* its first await and is resumed when the awaited rcon promise settles.   *)
(* Every await is therefore a point where other handlers may run, and a    *)
(* rejected promise ends the handler at that await.                        *)
(***************************************************************************)
EXTENDS Integers, Sequences, FiniteSets, TLC

\* ------------------------------------------------------------------ bounds
TickMs      == 2500    \* largest step of the clock
MaxNow      == 7500    \* the clock stops advancing here
MaxNewGames == 2       \* NEW_GAME events per behaviour
MaxAttempts == 2       \* SQUAD_CREATED events per behaviour
MaxInFlight == 1       \* handleSquadCreated calls suspended at an await
RateAttempts == 3      \* SQUAD_CREATED events per behaviour of SpecRate

\* --------------------------------------------------------- program constants
messageFrequency == 5000

\* ------------------------------------------------------------ input domains
Players ==
  { [steamID |-> "p1", teamID |-> 1, squadID |-> 1],
    [steamID |-> "p2", teamID |-> 2, squadID |-> 3] }

SquadNames ==
  { <<"S","q","u","a","d"," ","1">>,
    <<"s","q","u","a","d"," ","1","2">>,
    <<"S","Q","U","A","D"," ","1">>,
    <<"A","l","p","h","a">> }

BlockDurations == {5}

RateLimitSettings ==
  { [rateLimitEnforced |-> FALSE, rateLimitWindow |-> 2, rateLimitMaxSquads |-> 3,
     rateLimitBackoffTime |-> 10],
    [rateLimitEnforced |-> TRUE, rateLimitWindow |-> 5, rateLimitMaxSquads |-> 1,
     rateLimitBackoffTime |-> 5] }

KickSettings ==
  { [enforceMaxSquadCreationKick |-> FALSE, maxSquadsInTimeWindow |-> 10,
     timeWindowForKick |-> 5],
    [enforceMaxSquadCreationKick |-> TRUE, maxSquadsInTimeWindow |-> 1,
     timeWindowForKick |-> 5] }

OptionSets ==
  { [blockDuration |-> d, broadcastMode |-> bm, allowDefaultSquadNames |-> ad,
     rateLimitEnforced |-> rl.rateLimitEnforced,
     rateLimitWindow |-> rl.rateLimitWindow,
     rateLimitMaxSquads |-> rl.rateLimitMaxSquads,
     rateLimitBackoffTime |-> rl.rateLimitBackoffTime,
     maxSquadsInTimeWindow |-> k.maxSquadsInTimeWindow,
     timeWindowForKick |-> k.timeWindowForKick,
     enforceMaxSquadCreationKick |-> k.enforceMaxSquadCreationKick] :
    d \in BlockDurations, bm \in BOOLEAN, ad \in BOOLEAN,
    rl \in RateLimitSettings, k \in KickSettings }

\* the option sets of SpecRate: rate limiting and kick enforcement on, with a
\* backoff as long as the window, shorter than it and longer than it
RateWindows ==
  { [rateLimitWindow |-> 5,  rateLimitMaxSquads |-> 1, rateLimitBackoffTime |-> 5],
    [rateLimitWindow |-> 10, rateLimitMaxSquads |-> 1, rateLimitBackoffTime |-> 5],
    [rateLimitWindow |-> 5,  rateLimitMaxSquads |-> 2, rateLimitBackoffTime |-> 10] }

RateOptionSets ==
  { [blockDuration |-> d, broadcastMode |-> TRUE, allowDefaultSquadNames |-> TRUE,
     rateLimitEnforced |-> TRUE,
     rateLimitWindow |-> rl.rateLimitWindow,
     rateLimitMaxSquads |-> rl.rateLimitMaxSquads,
     rateLimitBackoffTime |-> rl.rateLimitBackoffTime,
     maxSquadsInTimeWindow |-> 1,
     timeWindowForKick |-> 5,
     enforceMaxSquadCreationKick |-> TRUE] :
    d \in BlockDurations, rl \in RateWindows }

VARIABLES
  now,                  \* Date.now()
  options,              \* this.options
  isBlocking,           \* this.isBlocking
  isRoundEnding,        \* this.isRoundEnding
  blockEndTime,         \* this.blockEndTime
  broadcastTimeouts,    \* this.broadcastTimeouts (timeout ids)
  timers,               \* pending setTimeout callbacks
  rateLimiter,          \* this.rateLimiter (Map steamID -> data)
  squadCreationTracker, \* this.squadCreationTracker (Map steamID -> timestamps)
  calls,                \* handleSquadCreated calls suspended at an await
  finished,             \* the handleSquadCreated call ended by the last step
  sent,                 \* rcon commands sent by the last step
  lastStep,             \* the handler or callback that ran last
  lastSignal,           \* the last lifecycle event handled
  newGames,             \* number of NEW_GAME events handled
  nAttempts,            \* number of SQUAD_CREATED events handled
  limits                \* the numbers of events this behaviour is explored up to

vars == << now, options, isBlocking, isRoundEnding, blockEndTime, broadcastTimeouts,
           timers, rateLimiter, squadCreationTracker, calls, finished, sent,
           lastStep, lastSignal, newGames, nAttempts, limits >>

\* ---------------------------------------------------------------- helpers
\* Math.ceil(ms / 1000)
CeilSeconds(ms) == IF ms >= 0 THEN (ms + 999) \div 1000 ELSE -((-ms) \div 1000)

\* Math.floor(ms / f) for ms >= 0
FloorDiv(ms, f) == ms \div f

blockDurationMs == options.blockDuration * 1000

Digits == {"0","1","2","3","4","5","6","7","8","9"}

\* /^[Ss]quad \d+$/.test(squadName)
isDefaultSquadName(squadName) ==
  /\ Len(squadName) >= 7
  /\ squadName[1] \in {"S", "s"}
  /\ SubSeq(squadName, 2, 6) = <<"q","u","a","d"," ">>
  /\ \A i \in 7..Len(squadName) : squadName[i] \in Digits

\* ---------------------------------------------------------- rcon commands
Cmd(c, a, b, text, seconds) ==
  [cmd |-> c, a |-> a, b |-> b, text |-> text, seconds |-> seconds]

DisbandCmd(player) == Cmd("AdminDisbandSquad", player.teamID, player.squadID, "", 0)
KickCmd(player) == Cmd("AdminKick", player.steamID, 0, "Excessive squad creations", 0)
RateLimitWarn(player, waitTime) ==
  Cmd("warn", player.steamID, 0, "exceeded the squad creation limit", waitTime)
BlockedWarn(player) ==
  Cmd("warn", player.steamID, 0, "blocked for the first seconds of the game",
      options.blockDuration)
UnlockedBroadcast == Cmd("broadcast", 0, 0, "creation is now unlocked", 0)
CountdownBroadcast(remainingTime) ==
  Cmd("broadcast", 0, 0, "unlocked in", remainingTime)
RoundEndBroadcast == Cmd("broadcast", 0, 0, "blocked until the next round starts", 0)

NoCall == [pc |-> "none"]

\* ------------------------------------------------------------------- Init
Init ==
  /\ now = 0
  /\ options \in OptionSets
  /\ isBlocking = FALSE
  /\ isRoundEnding = FALSE
  /\ blockEndTime = 0
  /\ broadcastTimeouts = <<>>
  /\ timers = {}
  /\ rateLimiter = <<>>
  /\ squadCreationTracker = <<>>
  /\ calls = [s \in 1..MaxInFlight |-> NoCall]
  /\ finished = NoCall
  /\ sent = <<>>
  /\ lastStep = "constructor"
  /\ lastSignal = "none"
  /\ newGames = 0
  /\ nAttempts = 0
  /\ limits = [newGames |-> MaxNewGames, attempts |-> MaxAttempts]

\* ------------------------------------------------------------------ timers
Range(f) == { f[i] : i \in DOMAIN f }

\* clearBroadcasts() forgetting to call clearTimeout
ClearBroadcasts_KeepsTimers(pending, ids) == pending

\* clearBroadcasts(): clearTimeout on every recorded id
ClearBroadcasts(pending, ids) == { t \in pending : t.id \notin Range(ids) }

\* scheduleBroadcasts(): the timeouts created by the for loop, for the game g
totalMessages == FloorDiv(blockDurationMs, messageFrequency)

CountdownTimers(g) ==
  { [id |-> <<g, i>>, kind |-> "countdown", due |-> now + i * messageFrequency,
     remainingTime |-> CeilSeconds(blockDurationMs - i * messageFrequency)] :
    i \in 1..totalMessages }

CountdownIds(g) == [i \in 1..totalMessages |-> <<g, i>>]

\* the expiry armed with twice the delay
ExpiryTimer_Late(g) ==
  [id |-> <<g, 0>>, kind |-> "expiry", due |-> now + 2 * blockDurationMs,
   remainingTime |-> 0]

\* the setTimeout at the end of handleNewGame
ExpiryTimer(g) ==
  [id |-> <<g, 0>>, kind |-> "expiry", due |-> now + blockDurationMs, remainingTime |-> 0]

\* -------------------------------------------------------- lifecycle events
handleNewGame ==
  /\ newGames < limits.newGames
  /\ newGames' = newGames + 1
  /\ isBlocking' = TRUE
  /\ isRoundEnding' = FALSE
  /\ blockEndTime' = now + blockDurationMs
  /\ squadCreationTracker' = <<>>
  /\ IF options.broadcastMode
       THEN /\ timers' = ClearBroadcasts(timers, broadcastTimeouts)
                           \cup CountdownTimers(newGames') \cup {ExpiryTimer(newGames')}
            /\ broadcastTimeouts' = CountdownIds(newGames')
       ELSE /\ timers' = timers \cup {ExpiryTimer(newGames')}
            /\ broadcastTimeouts' = broadcastTimeouts
  /\ sent' = <<>>
  /\ finished' = NoCall
  /\ lastStep' = "handleNewGame"
  /\ lastSignal' = "NEW_GAME"
  /\ UNCHANGED << now, options, limits, rateLimiter, calls, nAttempts >>

handleRoundEnd ==
  /\ isBlocking' = TRUE
  /\ isRoundEnding' = TRUE
  /\ timers' = ClearBroadcasts(timers, broadcastTimeouts)
  /\ broadcastTimeouts' = <<>>
  /\ squadCreationTracker' = <<>>
  /\ sent' = << RoundEndBroadcast >>
  /\ finished' = NoCall
  /\ lastStep' = "handleRoundEnd"
  /\ lastSignal' = "ROUND_ENDED"
  /\ UNCHANGED << now, options, limits, blockEndTime, rateLimiter, calls, newGames, nAttempts >>

\* the callback of the setTimeout armed by handleNewGame
ExpiryTimeout ==
  \E t \in timers :
    /\ t.kind = "expiry"
    /\ t.due <= now
    /\ timers' = timers \ {t}
    /\ isBlocking' = FALSE
    /\ sent' = << UnlockedBroadcast >>
    /\ finished' = NoCall
  /\ lastStep' = "ExpiryTimeout"
    /\ UNCHANGED << now, options, limits, isRoundEnding, blockEndTime, broadcastTimeouts,
                    rateLimiter, squadCreationTracker, calls, lastSignal,
                    newGames, nAttempts >>

\* the callback of a setTimeout armed by scheduleBroadcasts
CountdownTimeout ==
  \E t \in timers :
    /\ t.kind = "countdown"
    /\ t.due <= now
    /\ timers' = timers \ {t}
    /\ sent' = << CountdownBroadcast(t.remainingTime) >>
    /\ finished' = NoCall
  /\ lastStep' = "CountdownTimeout"
    /\ UNCHANGED << now, options, limits, isBlocking, isRoundEnding, blockEndTime,
                    broadcastTimeouts, rateLimiter, squadCreationTracker, calls,
                    lastSignal, newGames, nAttempts >>

\* the clock advances, never past the due time of a pending timeout
Tick ==
  /\ now < MaxNow
  /\ \A t \in timers : t.due > now
  /\ \E target \in {now + TickMs} \cup { t.due : t \in timers } :
       /\ target <= now + TickMs
       /\ \A t \in timers : target <= t.due
       /\ now' = target
  /\ sent' = <<>>
  /\ finished' = NoCall
  /\ lastStep' = "Tick"
  /\ UNCHANGED << options, limits, isBlocking, isRoundEnding, blockEndTime, broadcastTimeouts,
                  timers, rateLimiter, squadCreationTracker, calls, lastSignal, newGames, nAttempts >>

\* ------------------------------------------------------------ rate limiter
\* checkRateLimit comparing the window's length with > instead of >=
checkRateLimit_OffByOne(rl, player, currentTime) ==
  IF ~options.rateLimitEnforced
    THEN [ok |-> TRUE, rl |-> rl]
    ELSE
      LET id  == player.steamID
          rl1 == IF id \in DOMAIN rl
                   THEN rl
                   ELSE rl @@ (id :> [timestamps |-> <<>>, backoffUntil |-> 0])
          playerRateData == rl1[id]
          validTimestamps ==
            SelectSeq(playerRateData.timestamps,
                      LAMBDA ts : currentTime - ts < options.rateLimitWindow * 1000)
      IN  IF currentTime < playerRateData.backoffUntil
            THEN [ok |-> FALSE, rl |-> rl1]
            ELSE IF Len(validTimestamps) > options.rateLimitMaxSquads
              THEN [ok |-> FALSE,
                    rl |-> [rl1 EXCEPT ![id] =
                              [timestamps |-> validTimestamps,
                               backoffUntil |->
                                 currentTime + options.rateLimitBackoffTime * 1000]]]
              ELSE [ok |-> TRUE,
                    rl |-> [rl1 EXCEPT ![id] =
                              [timestamps |-> Append(validTimestamps, currentTime),
                               backoffUntil |-> playerRateData.backoffUntil]]]

\* checkRateLimit keeping the timestamps exactly rateLimitWindow old
checkRateLimit_InclusiveWindow(rl, player, currentTime) ==
  IF ~options.rateLimitEnforced
    THEN [ok |-> TRUE, rl |-> rl]
    ELSE
      LET id  == player.steamID
          rl1 == IF id \in DOMAIN rl
                   THEN rl
                   ELSE rl @@ (id :> [timestamps |-> <<>>, backoffUntil |-> 0])
          playerRateData == rl1[id]
          validTimestamps ==
            SelectSeq(playerRateData.timestamps,
                      LAMBDA ts : currentTime - ts <= options.rateLimitWindow * 1000)
      IN  IF currentTime < playerRateData.backoffUntil
            THEN [ok |-> FALSE, rl |-> rl1]
            ELSE IF Len(validTimestamps) >= options.rateLimitMaxSquads
              THEN [ok |-> FALSE,
                    rl |-> [rl1 EXCEPT ![id] =
                              [timestamps |-> validTimestamps,
                               backoffUntil |->
                                 currentTime + options.rateLimitBackoffTime * 1000]]]
              ELSE [ok |-> TRUE,
                    rl |-> [rl1 EXCEPT ![id] =
                              [timestamps |-> Append(validTimestamps, currentTime),
                               backoffUntil |-> playerRateData.backoffUntil]]]

\* checkRateLimit resetting backoffUntil when it admits an attempt
checkRateLimit_ResetsBackoff(rl, player, currentTime) ==
  IF ~options.rateLimitEnforced
    THEN [ok |-> TRUE, rl |-> rl]
    ELSE
      LET id  == player.steamID
          rl1 == IF id \in DOMAIN rl
                   THEN rl
                   ELSE rl @@ (id :> [timestamps |-> <<>>, backoffUntil |-> 0])
          playerRateData == rl1[id]
          validTimestamps ==
            SelectSeq(playerRateData.timestamps,
                      LAMBDA ts : currentTime - ts < options.rateLimitWindow * 1000)
      IN  IF currentTime < playerRateData.backoffUntil
            THEN [ok |-> FALSE, rl |-> rl1]
            ELSE IF Len(validTimestamps) >= options.rateLimitMaxSquads
              THEN [ok |-> FALSE,
                    rl |-> [rl1 EXCEPT ![id] =
                              [timestamps |-> validTimestamps,
                               backoffUntil |->
                                 currentTime + options.rateLimitBackoffTime * 1000]]]
              ELSE [ok |-> TRUE,
                    rl |-> [rl1 EXCEPT ![id] =
                              [timestamps |-> Append(validTimestamps, currentTime),
                               backoffUntil |-> 0]]]

\* checkRateLimit(player) at Date.now() = currentTime: the value returned and the
\* rateLimiter Map afterwards
checkRateLimit(rl, player, currentTime) ==
  IF ~options.rateLimitEnforced
    THEN [ok |-> TRUE, rl |-> rl]
    ELSE
      LET id  == player.steamID
          rl1 == IF id \in DOMAIN rl
                   THEN rl
                   ELSE rl @@ (id :> [timestamps |-> <<>>, backoffUntil |-> 0])
          playerRateData == rl1[id]
          validTimestamps ==
            SelectSeq(playerRateData.timestamps,
                      LAMBDA ts : currentTime - ts < options.rateLimitWindow * 1000)
      IN  IF currentTime < playerRateData.backoffUntil
            THEN [ok |-> FALSE, rl |-> rl1]
            ELSE IF Len(validTimestamps) >= options.rateLimitMaxSquads
              THEN [ok |-> FALSE,
                    rl |-> [rl1 EXCEPT ![id] =
                              [timestamps |-> validTimestamps,
                               backoffUntil |->
                                 currentTime + options.rateLimitBackoffTime * 1000]]]
              ELSE [ok |-> TRUE,
                    rl |-> [rl1 EXCEPT ![id] =
                              [timestamps |-> Append(validTimestamps, currentTime),
                               backoffUntil |-> playerRateData.backoffUntil]]]

\* ----------------------------------------------------------- abuse tracker
\* trackSquadCreation(player) at Date.now() = currentTime: the tracker Map
\* afterwards and whether kickPlayer is called
trackSquadCreation(tracker, player, currentTime) ==
  LET id   == player.steamID
      old  == IF id \in DOMAIN tracker THEN tracker[id] ELSE <<>>
      playerCreationData ==
        Append(SelectSeq(old, LAMBDA ts :
                           currentTime - ts < options.timeWindowForKick * 1000),
               currentTime)
  IN  [tracker |-> IF id \in DOMAIN tracker
                     THEN [tracker EXCEPT ![id] = playerCreationData]
                     ELSE tracker @@ (id :> playerCreationData),
       kick |-> /\ options.enforceMaxSquadCreationKick
                /\ Len(playerCreationData) > options.maxSquadsInTimeWindow]

\* kickPlayer(player) runs up to its rcon.execute call inside trackSquadCreation
KickCmds(player, kick) == IF kick THEN << KickCmd(player) >> ELSE <<>>

\* ------------------------------------------------------ handleSquadCreated
\* the condition of line 194 with the round-end flag negated
IsBlocked_NegatedFlag == isBlocking \/ ~isRoundEnding

\* line 194
IsBlocked == isBlocking \/ isRoundEnding

\* line 195
IsExempt(squadName) == options.allowDefaultSquadNames /\ isDefaultSquadName(squadName)

\* line 204
WaitTime(backoffData, currentTime) == CeilSeconds(backoffData.backoffUntil - currentTime)

FreeSlots == { s \in 1..MaxInFlight : calls[s].pc = "none" }

NewCall(player, squadName) ==
  [player |-> player, squadName |-> squadName, at |-> now,
   signal |-> lastSignal, blocking |-> isBlocking, roundEnding |-> isRoundEnding,
   blockEnd |-> blockEndTime,
   backoffBefore |-> IF player.steamID \in DOMAIN rateLimiter
                       THEN rateLimiter[player.steamID].backoffUntil ELSE 0,
   canCreate |-> TRUE, pc |-> "start",
   issued |-> <<>>, tracked |-> FALSE]

\* The behaviours explored hold at most limits.attempts SQUAD_CREATED events; the
\* players being interchangeable, the first of them comes from p1.
MayAttempt(player) ==
  /\ nAttempts < limits.attempts
  /\ (player.steamID # "p1" => nAttempts > 0)

\* SQUAD_CREATED while neither flag is set: lines 192-194 and 213
SquadCreatedUnblocked(player, squadName) ==
  /\ MayAttempt(player)
  /\ ~IsBlocked
  /\ LET r == trackSquadCreation(squadCreationTracker, player, now)
     IN  /\ squadCreationTracker' = r.tracker
         /\ sent' = KickCmds(player, r.kick)
         /\ finished' = [NewCall(player, squadName) EXCEPT
                           !.pc = "completed", !.tracked = TRUE, !.issued = sent']
  /\ nAttempts' = nAttempts + 1
  /\ lastStep' = "handleSquadCreated"
  /\ UNCHANGED << now, options, limits, isBlocking, isRoundEnding, blockEndTime,
                  broadcastTimeouts, timers, rateLimiter, calls, lastSignal, newGames >>

\* SQUAD_CREATED with an exempt name while a flag is set: lines 192-196
SquadCreatedExempt(player, squadName) ==
  /\ MayAttempt(player)
  /\ IsBlocked
  /\ IsExempt(squadName)
  /\ finished' = [NewCall(player, squadName) EXCEPT !.pc = "returned"]
  /\ sent' = <<>>
  /\ nAttempts' = nAttempts + 1
  /\ lastStep' = "handleSquadCreated"
  /\ UNCHANGED << now, options, limits, isBlocking, isRoundEnding, blockEndTime,
                  broadcastTimeouts, timers, rateLimiter, squadCreationTracker, calls,
                  lastSignal, newGames >>

\* SQUAD_CREATED while a flag is set, up to the first await: lines 192-209
SquadCreatedBlocked(player, squadName) ==
  /\ MayAttempt(player)
  /\ IsBlocked
  /\ ~IsExempt(squadName)
  /\ FreeSlots # {}
  /\ LET s == CHOOSE x \in FreeSlots : \A y \in FreeSlots : x <= y
         r == checkRateLimit(rateLimiter, player, now)
         c == [NewCall(player, squadName) EXCEPT !.canCreate = r.ok]
     IN  /\ rateLimiter' = r.rl
         /\ IF ~r.ok /\ player.steamID \in DOMAIN r.rl
              THEN /\ sent' = << RateLimitWarn(player, WaitTime(r.rl[player.steamID], now)) >>
                   /\ calls' = [calls EXCEPT ![s] =
                                  [c EXCEPT !.pc = "awaitRateWarn", !.issued = sent']]
              ELSE /\ sent' = << DisbandCmd(player) >>
                   /\ calls' = [calls EXCEPT ![s] =
                                  [c EXCEPT !.pc = "awaitDisband", !.issued = sent']]
  /\ nAttempts' = nAttempts + 1
  /\ finished' = NoCall
  /\ lastStep' = "handleSquadCreated"
  /\ UNCHANGED << now, options, limits, isBlocking, isRoundEnding, blockEndTime,
                  broadcastTimeouts, timers, squadCreationTracker, lastSignal, newGames >>

\* the warn of line 205 resolved: line 209 up to its await
RateWarnResolved(s) ==
  /\ calls[s].pc = "awaitRateWarn"
  /\ sent' = << DisbandCmd(calls[s].player) >>
  /\ calls' = [calls EXCEPT ![s].pc = "awaitDisband",
                            ![s].issued = calls[s].issued \o sent']
  /\ finished' = NoCall
  /\ lastStep' = "RateWarnResolved"
  /\ UNCHANGED << now, options, limits, isBlocking, isRoundEnding, blockEndTime,
                  broadcastTimeouts, timers, rateLimiter, squadCreationTracker,
                  lastSignal, newGames, nAttempts >>

\* the disband of line 209 resolved: line 210 up to its await
DisbandResolved(s) ==
  /\ calls[s].pc = "awaitDisband"
  /\ sent' = << BlockedWarn(calls[s].player) >>
  /\ calls' = [calls EXCEPT ![s].pc = "awaitBlockedWarn",
                            ![s].issued = calls[s].issued \o sent']
  /\ finished' = NoCall
  /\ lastStep' = "DisbandResolved"
  /\ UNCHANGED << now, options, limits, isBlocking, isRoundEnding, blockEndTime,
                  broadcastTimeouts, timers, rateLimiter, squadCreationTracker,
                  lastSignal, newGames, nAttempts >>

\* the warn of line 210 resolved: line 213
BlockedWarnResolved(s) ==
  /\ calls[s].pc = "awaitBlockedWarn"
  /\ LET r == trackSquadCreation(squadCreationTracker, calls[s].player, now)
     IN  /\ squadCreationTracker' = r.tracker
         /\ sent' = KickCmds(calls[s].player, r.kick)
         /\ finished' = [calls[s] EXCEPT !.pc = "completed", !.tracked = TRUE,
                                         !.issued = calls[s].issued \o sent']
  /\ calls' = [calls EXCEPT ![s] = NoCall]
  /\ lastStep' = "BlockedWarnResolved"
  /\ UNCHANGED << now, options, limits, isBlocking, isRoundEnding, blockEndTime,
                  broadcastTimeouts, timers, rateLimiter, lastSignal, newGames,
                  nAttempts >>

\* an awaited rcon promise rejected: the await throws and the handler ends there
RconRejected(s) ==
  /\ calls[s].pc \in {"awaitRateWarn", "awaitDisband", "awaitBlockedWarn"}
  /\ finished' = [calls[s] EXCEPT !.pc = "rejected"]
  /\ calls' = [calls EXCEPT ![s] = NoCall]
  /\ sent' = <<>>
  /\ lastStep' = "RconRejected"
  /\ UNCHANGED << now, options, limits, isBlocking, isRoundEnding, blockEndTime,
                  broadcastTimeouts, timers, rateLimiter, squadCreationTracker,
                  lastSignal, newGames, nAttempts >>

\* ------------------------------------------------------------------- Next
Next ==
  \/ handleNewGame
  \/ handleRoundEnd
  \/ ExpiryTimeout
  \/ CountdownTimeout
  \/ Tick
  \/ \E player \in Players, squadName \in SquadNames :
       \/ SquadCreatedUnblocked(player, squadName)
       \/ SquadCreatedExempt(player, squadName)
       \/ SquadCreatedBlocked(player, squadName)
  \/ \E s \in 1..MaxInFlight :
       \/ RateWarnResolved(s)
       \/ DisbandResolved(s)
       \/ BlockedWarnResolved(s)
       \/ RconRejected(s)

Spec == Init /\ [][Next]_vars

\* the rate limiter and the abuse tracker under more attempts: one NEW_GAME, the
\* option sets of RateOptionSets
InitRate ==
  /\ now = 0
  /\ options \in RateOptionSets
  /\ isBlocking = FALSE
  /\ isRoundEnding = FALSE
  /\ blockEndTime = 0
  /\ broadcastTimeouts = <<>>
  /\ timers = {}
  /\ rateLimiter = <<>>
  /\ squadCreationTracker = <<>>
  /\ calls = [s \in 1..MaxInFlight |-> NoCall]
  /\ finished = NoCall
  /\ sent = <<>>
  /\ lastStep = "constructor"
  /\ lastSignal = "none"
  /\ newGames = 0
  /\ nAttempts = 0
  /\ limits = [newGames |-> 1, attempts |-> RateAttempts]

SpecRate == InitRate /\ [][Next]_vars

\* ============================================================== properties
\* handleSquadCreated calls, suspended or just ended
Suspended == { calls[s] : s \in { x \in 1..MaxInFlight : calls[x].pc # "none" } }
Ended == IF finished.pc = "none" THEN {} ELSE {finished}
AllCalls == Suspended \cup Ended

Count(c, cmd) == Cardinality({ i \in DOMAIN c.issued : c.issued[i].cmd = cmd })
Disbands(c) == Count(c, "AdminDisbandSquad")
Warns(c) == Count(c, "warn")
Kicks(c) == Count(c, "AdminKick")

\* the names of SquadNames of the form "Squad <number>" / "squad <number>"
DefaultNames ==
  { <<"S","q","u","a","d"," ","1">>, <<"s","q","u","a","d"," ","1","2">> }

ExemptCall(c) == options.allowDefaultSquadNames /\ c.squadName \in DefaultNames

\* the phase in which the call's attempt arrived
InRoundEnd(c) == c.signal = "ROUND_ENDED"
InNewMatchWindow(c) == c.signal = "NEW_GAME" /\ c.at < c.blockEnd
InBlockPhase(c) == InRoundEnd(c) \/ InNewMatchWindow(c)
InUnblocked(c) == ~c.blocking /\ ~c.roundEnding

\* C1: between a round-end signal and the next new-match signal every attempt that
\* is not exempt is denied and a disband command is issued for it: no handler call
\* for such an attempt ends without having sent the disband.
C1_RoundEndAttemptDisbanded ==
  \A c \in Ended : (InRoundEnd(c) /\ ~ExemptCall(c)) => Disbands(c) >= 1

\* C2: every attempt that is not exempt and arrives at t0 <= t < t0 + D after the
\* last new-match signal, no round-end signal in between, is denied and disbanded.
\* Stated for the handler calls none of whose rcon promises rejected.
C2_NewMatchWindowAttemptDisbanded ==
  \A c \in Ended :
    (InNewMatchWindow(c) /\ ~ExemptCall(c) /\ c.pc # "rejected") => Disbands(c) >= 1

\* C3: when the last lifecycle signal was a new-match signal and blockDuration has
\* elapsed since, neither blocking flag is set, and with rate limiting disabled an
\* attempt arriving then runs to its end with no disband and no warn.
C3_BlockExpires ==
  /\ (lastSignal = "NEW_GAME" /\ now > blockEndTime) => (~isBlocking /\ ~isRoundEnding)
  /\ \A c \in AllCalls :
       (c.signal = "NEW_GAME" /\ c.at > c.blockEnd /\ ~options.rateLimitEnforced)
         => (c.pc = "completed" /\ Disbands(c) = 0 /\ Warns(c) = 0)

\* an attempt allowed after the window of the second new-match signal has elapsed
C3_Witness ==
  /\ finished.pc = "completed"
  /\ finished.signal = "NEW_GAME"
  /\ finished.at > finished.blockEnd
  /\ newGames = 2
  /\ ~options.rateLimitEnforced

\* C4: with allowDefaultSquadNames, an attempt with a default name in a block phase
\* gets no disband and no warn, and an attempt with any other name in a block phase
\* is disbanded.
C4_DefaultNameExemption ==
  options.allowDefaultSquadNames =>
    \A c \in Ended :
      InBlockPhase(c) =>
        IF c.squadName \in DefaultNames
          THEN Disbands(c) = 0 /\ Warns(c) = 0
          ELSE Disbands(c) >= 1

\* C5: with rate limiting disabled, an attempt evaluated while neither blocking flag
\* is set runs to its end with no disband and no warn.
C5_UnblockedAllowed ==
  ~options.rateLimitEnforced =>
    \A c \in AllCalls :
      InUnblocked(c) => (c.pc = "completed" /\ Disbands(c) = 0 /\ Warns(c) = 0)

\* an attempt allowed before any lifecycle signal has been received
C5_Witness ==
  /\ finished.pc = "completed"
  /\ finished.signal = "none"
  /\ InUnblocked(finished)
  /\ ~options.rateLimitEnforced

\* C6: a denied attempt gets a warn only when broadcastMode is false.
C6_NoWarnInBroadcastMode ==
  options.broadcastMode => \A c \in AllCalls : Warns(c) = 0

\* C7: one evaluation of an attempt issues at most one disband, at most one warn and
\* at most one kick.
C7_AtMostOneOfEach ==
  \A c \in AllCalls : Disbands(c) <= 1 /\ Warns(c) <= 1 /\ Kicks(c) <= 1

\* C8: the feedback of a denied attempt follows the phase: in the new-match window it
\* carries the whole seconds, rounded up, left until expiresAt, and in the round-end
\* block it is the round-end message, which carries no countdown.
BlockFeedback(c) ==
  { c.issued[i] : i \in { j \in DOMAIN c.issued :
       c.issued[j].cmd = "warn" /\ c.issued[j].text # "exceeded the squad creation limit" } }

C8_FeedbackFollowsPhase ==
  \A c \in AllCalls : \A w \in BlockFeedback(c) :
    /\ InNewMatchWindow(c) => w.seconds = CeilSeconds(c.blockEnd - c.at)
    /\ InRoundEnd(c) => (w.text = "not allowed at round end" /\ w.seconds = 0)

\* C9: every pending countdown timeout was scheduled by the most recent new-match
\* signal, none is pending after a round-end signal, and no countdown broadcast is
\* sent after a round-end signal.
CountdownPending == { t \in timers : t.kind = "countdown" }

C9_CountdownsCancelled ==
  /\ \A t \in CountdownPending : t.id[1] = newGames
  /\ lastSignal = "ROUND_ENDED" => CountdownPending = {}
  /\ (\E i \in DOMAIN sent : sent[i].text = "unlocked in") => lastSignal = "NEW_GAME"

\* a round end handled in broadcast mode before the countdown of the running window
\* came due
C9_Witness ==
  /\ options.broadcastMode
  /\ lastStep = "handleRoundEnd"
  /\ now < blockEndTime
  /\ \E t \in timers : t.kind = "expiry" /\ t.id[1] = newGames /\ t.due > now

\* C10: between a round-end signal and the next new-match signal no expiry callback
\* runs: none is pending, none sends the unlocked broadcast.
C10_ExpiryCancelledAtRoundEnd ==
  lastSignal = "ROUND_ENDED" =>
    /\ \A t \in timers : t.kind # "expiry"
    /\ lastStep # "ExpiryTimeout"
    /\ UnlockedBroadcast \notin Range(sent)

\* ------------------------------------------------- rate limiter properties
\* the rate-limit record of a player, as checkRateLimit sees it
RateData(rl, id) ==
  IF id \in DOMAIN rl THEN rl[id] ELSE [timestamps |-> <<>>, backoffUntil |-> 0]

\* the number of registered timestamps lying within the last rateLimitWindow
\* seconds before t
InWindow(data, t) ==
  Cardinality({ i \in DOMAIN data.timestamps :
                  t - data.timestamps[i] < options.rateLimitWindow * 1000 })

BackoffMs == options.rateLimitBackoffTime * 1000

\* the call started by this step, if the step is a rate-limit check (an attempt
\* that is not exempt arriving while a blocking flag is set)
Checked == { s \in 1..MaxInFlight : calls[s].pc = "none" /\ calls'[s].pc # "none" }

\* C11: a check for a player with no active backoff returns Allowed and appends now
\* when fewer than rateLimitMaxSquads timestamps lie in the window, and otherwise
\* returns Backoff and sets backoffUntil = now + rateLimitBackoffTime without
\* appending; the window never holds more than rateLimitMaxSquads timestamps, so
\* the check denied is the (max+1)-th of the window.
C11_CheckAndRegister ==
  [][ \A s \in Checked :
        LET c   == calls'[s]
            id  == c.player.steamID
            old == RateData(rateLimiter, id)
            new == RateData(rateLimiter', id)
            n   == InWindow(old, now)
        IN  (options.rateLimitEnforced /\ now >= old.backoffUntil) =>
              /\ n <= options.rateLimitMaxSquads
              /\ IF n < options.rateLimitMaxSquads
                   THEN /\ c.canCreate
                        /\ Len(new.timestamps) = n + 1
                        /\ new.timestamps[n + 1] = now
                        /\ new.backoffUntil = old.backoffUntil
                   ELSE /\ ~c.canCreate
                        /\ new.backoffUntil = now + BackoffMs
                        /\ Len(new.timestamps) = n
                        /\ InWindow(new, now) = n
    ]_vars

\* a check denied because the window is full, with a window of two timestamps
C11_Witness ==
  \E c \in Suspended :
    /\ ~c.canCreate
    /\ c.at >= c.backoffBefore
    /\ options.rateLimitMaxSquads = 2
    /\ RateData(rateLimiter, c.player.steamID).backoffUntil = c.at + BackoffMs
    /\ Len(RateData(rateLimiter, c.player.steamID).timestamps) = 2

\* the players whose backoff has expired and who have not been checked since
BackoffExpired ==
  { p \in Players :
      /\ p.steamID \in DOMAIN rateLimiter
      /\ rateLimiter[p.steamID].backoffUntil > 0
      /\ now >= rateLimiter[p.steamID].backoffUntil
      /\ \A i \in DOMAIN rateLimiter[p.steamID].timestamps :
           rateLimiter[p.steamID].timestamps[i] < rateLimiter[p.steamID].backoffUntil }

\* C12 as stated: for every configuration, the first check of a player after the
\* backoff has expired returns Allowed.
C12_AllowedAfterBackoff ==
  options.rateLimitEnforced =>
    \A p \in BackoffExpired : checkRateLimit(rateLimiter, p, now).ok

\* C12 amended: when rateLimitBackoffTime >= rateLimitWindow, the first check of a
\* player after the backoff has expired returns Allowed and registers now, the window
\* holding nothing else.
C12_AllowedAfterBackoffCoveringWindow ==
  (options.rateLimitEnforced /\ options.rateLimitBackoffTime >= options.rateLimitWindow) =>
    \A p \in BackoffExpired :
      LET r == checkRateLimit(rateLimiter, p, now)
      IN  r.ok /\ r.rl[p.steamID].timestamps = << now >>

\* a check admitted at or after the end of the player's backoff, the backoff being as
\* long as the window
C12_Witness ==
  /\ options.rateLimitBackoffTime >= options.rateLimitWindow
  /\ \E c \in Suspended :
       /\ c.backoffBefore > 0
       /\ c.at >= c.backoffBefore
       /\ c.canCreate
       /\ rateLimiter[c.player.steamID].timestamps = << c.at >>

\* C13: with rate limiting enabled, an attempt that is not exempt and arrives while
\* its player's backoff is active is denied and disbanded in every phase, the
\* unblocked one included.  Stated for the handler calls none of whose rcon promises
\* rejected.
C13_BackoffGatesEveryPhase ==
  options.rateLimitEnforced =>
    \A c \in Ended :
      (c.at < c.backoffBefore /\ ~ExemptCall(c) /\ c.pc # "rejected")
        => Disbands(c) >= 1

\* C14: every attempt, allowed or denied, exempt or not, is registered in the abuse
\* tracker of its player.  Stated for the handler calls none of whose rcon promises
\* rejected.
C14_EveryAttemptTracked ==
  \A c \in Ended : c.pc # "rejected" => c.tracked

\* C15: with kick enforcement, only the (maxSquadsInTimeWindow + 1)-th registration
\* of a player within the window issues a kick; later ones in the same window issue
\* none.
C15_OneKickPerBurst ==
  \A c \in Ended :
    Kicks(c) >= 1 =>
      Len(squadCreationTracker[c.player.steamID]) = options.maxSquadsInTimeWindow + 1

\* C16: a failed disband or warn rolls nothing back: the attempt is counted in the
\* abuse tracker exactly as when the command succeeded (its rate-limit registration
\* precedes every command).
C16_FailedCommandStillCounted ==
  \A c \in Ended : c.pc = "rejected" => c.tracked

\* C17: the evaluation of an attempt is one step with respect to the lifecycle
\* handlers: no attempt is registered in the abuse tracker after a new-match or
\* round-end signal that arrived after it.
C17_NoRegistrationAfterLaterSignal ==
  \A c \in Ended : c.tracked => c.signal = lastSignal

\* C18: right after a new-match signal is handled the rate limiter holds no timestamp
\* and no active backoff for any player.
C18_RateLimiterClearedOnNewGame ==
  lastStep = "handleNewGame" =>
    \A id \in DOMAIN rateLimiter :
      /\ rateLimiter[id].timestamps = <<>>
      /\ rateLimiter[id].backoffUntil <= now

\* C19: no step lowers a player's backoffUntil, and a step that changes it finds the
\* previous backoff elapsed.
C19_BackoffNeverRetracted ==
  [][ \A p \in Players :
        LET old == RateData(rateLimiter, p.steamID)
            new == RateData(rateLimiter', p.steamID)
        IN  /\ new.backoffUntil >= old.backoffUntil
            /\ new.backoffUntil # old.backoffUntil => now >= old.backoffUntil
    ]_vars

\* a second violation, after the first backoff has elapsed, advancing backoffUntil
C19_Witness ==
  \E c \in Suspended :
    /\ c.backoffBefore > 0
    /\ c.at >= c.backoffBefore
    /\ ~c.canCreate
    /\ rateLimiter[c.player.steamID].backoffUntil = c.at + BackoffMs
    /\ rateLimiter[c.player.steamID].backoffUntil > c.backoffBefore

\* C20: the disbands of an attempt are those of the run without rate limiter, in
\* which the handler sends the disband before its first await: one for an attempt
\* that is not exempt and arrives while a blocking flag is set, none otherwise.  The
\* flags themselves never depend on the rate limiter.
C20_DisbandIndependentOfRateLimiter ==
  \A c \in Ended :
    Disbands(c) = IF (c.blocking \/ c.roundEnding) /\ ~ExemptCall(c) THEN 1 ELSE 0

====
